---- MODULE Spec2Model ----
(***************************************************************************)
(* The range cache of src/buzz: RangeCache (registry, chunk maps, work     *)
(* queue, dispatcher with a permit pool, fetch tasks), the waiter thread   *)
(* spawned by RangeCache::get and the CachedRead / CachedReadData readers. *)
(*                                                                         *)
(* Every critical section on the `data` mutex is one atomic action: the    *)
(* only blocking call made while the guard is held is Condvar::wait, which *)
(* releases the mutex, and it ends the action.                             *)
(***************************************************************************)
EXTENDS Integers, Sequences, FiniteSets, TLC

\* ---------------------------------------------------------------- bounds
MaxOffset == 1      \* start offsets 0..MaxOffset
MaxLen == 2         \* lengths 1..MaxLen
MaxSched == 2       \* schedule calls per run
MaxGets == 2        \* get calls per run
MaxCalls == 3       \* schedule and get calls per run, together
MaxBuf == 2         \* consumer buffer lengths 0..MaxBuf
MaxPermits == 1     \* concurrent_downloads is drawn from 1..MaxPermits
MaxFiles == 2       \* CachedFile values constructed in a behaviour
I64Bits == 4        \* the width of i64 and of usize, scaled down from 64

Sources == {"s3", "http"}
OneSource == {"s3"}
Files == {"f"}
Factories == {"factoryA", "factoryB"}
Offsets == 0..MaxOffset
Lengths == 1..MaxLen
BufLens == 0..MaxBuf
Reasons == {"download failed"}
TotalLengths == MaxLen..(MaxOffset + MaxLen)

VARIABLES
    data,         \* CacheData: (downloader id, file id) -> (start -> Download)
    downloaders,  \* DownloaderMap: downloader id -> downloader
    built,        \* how often each factory was invoked for each downloader id
    lastReg,      \* the arguments of the latest register_downloader call
    permits,      \* free permits of the dispatcher's semaphore
    poolSize,     \* concurrent_downloads given to RangeCache::new
    queue,        \* the unbounded channel of DownloadRequest
    dispatcher,   \* the dispatcher loop: its position and the message it holds
    tasks,        \* the download tasks, in the order they were spawned
    gets,         \* one entry per get call: the waiter thread and its CachedRead
    unwound,      \* the API functions of which a call panicked in its caller
    files,        \* the CachedFile values constructed so far
    cat           \* the cat command: --offset, the file's num_rows, absolute_offset

vars == <<data, downloaders, built, lastReg, permits, poolSize, queue, dispatcher, tasks, gets, unwound, files, cat>>

\* ------------------------------------------------------------ data types
\* Option<T> is a sequence of length 0 (None) or 1 (Some(x)).
None == <<>>
Some(x) == <<x>>

Pending == [state |-> "Pending"]
Done(opt) == [state |-> "Done", bytes |-> opt]
Error(reason) == [state |-> "Error", reason |-> reason]

Min(a, b) == IF a <= b THEN a ELSE b

\* The byte at position p of file f as the downloader of source s serves it.
Content(s, f, p) == <<s, f, p>>

\* Downloader::download on success: all of the requested bytes.
Download(s, f, start, length) == [i \in 1..length |-> Content(s, f, start + i - 1)]

\* The outcomes of one download call: all the bytes, or an error.
DownloadResults(m) ==
    {[ok |-> TRUE, bytes |-> Download(m.src, m.file, m.start, m.length), reason |-> ""]}
    \cup {[ok |-> FALSE, bytes |-> <<>>, reason |-> r] : r \in Reasons}

InsertByFile(d, s, f, start, dl) ==
    LET keys == {<<s2, f>> : s2 \in Sources}
        fm(key) == IF key \in DOMAIN d THEN d[key] ELSE <<>>
        fm2(key) == [k \in (DOMAIN fm(key)) \cup {start} |->
                        IF k = start THEN dl ELSE fm(key)[k]]
    IN [k \in (DOMAIN d) \cup keys |-> IF k \in keys THEN fm2(k) ELSE d[k]]

InsertFresh(d, s, f, start, dl) ==
    LET key == <<s, f>>
    IN [k \in (DOMAIN d) \cup {key} |-> IF k = key THEN [o \in {start} |-> dl] ELSE d[k]]

\* data_guard.entry(key).or_insert_with(BTreeMap::new) followed by insert(start, dl)
Insert(d, s, f, start, dl) ==
    LET key == <<s, f>>
        fm == IF key \in DOMAIN d THEN d[key] ELSE <<>>
        fm2 == [k \in (DOMAIN fm) \cup {start} |-> IF k = start THEN dl ELSE fm[k]]
    IN [k \in (DOMAIN d) \cup {key} |-> IF k = key THEN fm2 ELSE d[k]]

\* file_map.range((Unbounded, Included(start))).next_back(): the key of the entry
FloorGreatest(fm, start) ==
    LET ks == {k \in DOMAIN fm : k <= start}
    IN IF ks = {} THEN None ELSE Some(CHOOSE k \in ks : \A j \in ks : j <= k)

FloorLeast(fm, start) ==
    LET ks == {k \in DOMAIN fm : k <= start}
    IN IF ks = {} THEN None ELSE Some(CHOOSE k \in ks : \A j \in ks : k <= j)

Floor(fm, start) == FloorGreatest(fm, start)

CachedReadDataReadNoAdvance(rd, buflen) ==
    LET len == Min(buflen, rd.remaining)
    IN [n |-> len,
        bytes |-> SubSeq(rd.data, rd.position + 1, rd.position + len),
        rd |-> [data |-> rd.data,
                position |-> rd.position,
                remaining |-> rd.remaining - len]]

\* CachedReadData::read with a buffer of buflen bytes
CachedReadDataRead(rd, buflen) ==
    LET len == Min(buflen, rd.remaining)
    IN [n |-> len,
        bytes |-> SubSeq(rd.data, rd.position + 1, rd.position + len),
        rd |-> [data |-> rd.data,
                position |-> rd.position + len,
                remaining |-> rd.remaining - len]]

\* ------------------------------------------------------------ cat --offset
I64Min == -(2 ^ (I64Bits - 1))
I64Max == 2 ^ (I64Bits - 1) - 1
I64 == I64Min..I64Max
UsizeMax == 2 ^ I64Bits - 1

\* i64 + i64: an overflow panics in a build with overflow checks and wraps in
\* one without
AddI64(a, b) ==
    IF a + b \in I64 THEN {Some(a + b)}
    ELSE {None, Some(((a + b - I64Min) % (2 ^ I64Bits)) + I64Min)}

\* usize + usize, u64 + u64: as for i64, None for the panic of a build with
\* overflow checks, the wrapped sum for a build without
AddUsize(a, b) ==
    IF a + b <= UsizeMax THEN {Some(a + b)}
    ELSE {None, Some((a + b) % (2 ^ I64Bits))}

\* TryInto<usize> for i64
TryIntoUsize(v) == IF 0 <= v /\ v <= UsizeMax THEN Some(v) ELSE None

AbsoluteOffsetsAbs(offset, num_rows) ==
    {TryIntoUsize(IF offset < 0 THEN -offset ELSE offset)}

\* let absolute_offset: usize = ...: the values the expression can have for
\* --offset and num_rows; None where it panics
AbsoluteOffsets(offset, num_rows) ==
    IF offset < 0
    THEN {IF sum = None THEN None ELSE TryIntoUsize(sum[1]) : sum \in AddI64(num_rows, offset)}
    ELSE {TryIntoUsize(offset)}

\* ------------------------------------------------------------------ Init
InitCache ==
    /\ data = <<>>
    /\ downloaders = <<>>
    /\ built = [s \in Sources |-> [fa \in Factories |-> 0]]
    /\ lastReg = None
    /\ poolSize \in 1..MaxPermits
    /\ permits = poolSize
    /\ queue = <<>>
    /\ dispatcher = [pc |-> "recv", msg |-> None]
    /\ tasks = <<>>
    /\ gets = <<>>
    /\ unwound = {}
    /\ files = {}

Init ==
    /\ InitCache
    /\ cat = [pc |-> "idle", offset |-> 0, num_rows |-> 0, absolute_offset |-> None]

\* cat is given any --offset on a file with any num_rows
InitCat ==
    /\ InitCache
    /\ cat \in [pc : {"start"}, offset : I64, num_rows : I64, absolute_offset : {None}]

\* --------------------------------------------------------------- actions
RegisterInsertAlways(dls, s, fa) ==
    [k \in (DOMAIN dls) \cup {s} |-> IF k = s THEN fa ELSE dls[k]]

\* RangeCache::register_downloader: the registry after the call
RegisterInsert(dls, s, fa) ==
    IF s \in DOMAIN dls THEN dls
    ELSE [k \in (DOMAIN dls) \cup {s} |-> IF k = s THEN fa ELSE dls[k]]

\* RangeCache::register_downloader: downloader_creator() is called when the id is new
RegisterBuilt(dls, b, s, fa) ==
    IF s \in DOMAIN dls THEN b ELSE [b EXCEPT ![s][fa] = @ + 1]

DataLockHeldByWaiter(gs) == \E g \in DOMAIN gs : gs[g].pc = "waiting"

\* Whether a thread holds the data mutex between two steps: each step that
\* locks it unlocks it at its end, and cv_ref.wait(data_guard) unlocks it for
\* as long as the thread is blocked
DataLockHeld(gs) == FALSE

\* A std::sync::Mutex is poisoned once a thread has panicked while holding it.
\* The thread spawned by get holds the data lock wherever it panics.
DataPoisoned(gs) == \E g \in DOMAIN gs : gs[g].pc = "panicked"

\* A download task holds the downloaders lock when its lookup panics; its later
\* panic, on the data lock, comes after the download and holds no lock.
DownloadersPoisoned(ts) == \E i \in DOMAIN ts : ts[i].pc = "panicked" /\ ts[i].res = None

\* RangeCache::register_downloader; self.downloaders.lock().unwrap() panics in
\* the caller when the lock is poisoned
register_downloader(s, fa) ==
    /\ lastReg' = Some(<<s, fa>>)
    /\ IF DownloadersPoisoned(tasks)
       THEN /\ unwound' = unwound \cup {"register_downloader"}
            /\ UNCHANGED <<downloaders, built>>
       ELSE /\ downloaders' = RegisterInsert(downloaders, s, fa)
            /\ built' = RegisterBuilt(downloaders, built, s, fa)
            /\ UNCHANGED unwound

\* A call of register_downloader by a client of the cache
RegisterDownloader(s, fa) ==
    /\ register_downloader(s, fa)
    /\ UNCHANGED <<data, permits, poolSize, queue, dispatcher, tasks, gets, files, cat>>

\* The number of schedule calls made so far.
Scheduled == Len(queue) + Len(dispatcher.msg) + Len(tasks)

schedule_replacing(s, f, start, length) ==
    IF DataPoisoned(gets)
    THEN /\ unwound' = unwound \cup {"schedule"}
         /\ UNCHANGED <<data, queue>>
    ELSE /\ data' = Insert(data, s, f, start, Pending)
         /\ queue' = Append(SelectSeq(queue, LAMBDA m : ~(m.src = s /\ m.file = f
                                                          /\ m.start = start)),
                            [src |-> s, file |-> f, start |-> start, length |-> length])
         /\ UNCHANGED unwound

\* RangeCache::schedule; self.data.lock().unwrap() panics in the caller when the
\* lock is poisoned, before anything is inserted or sent
schedule(s, f, start, length) ==
    /\ ~DataLockHeld(gets)
    /\ IF DataPoisoned(gets)
       THEN /\ unwound' = unwound \cup {"schedule"}
            /\ UNCHANGED <<data, queue>>
       ELSE /\ data' = Insert(data, s, f, start, Pending)
            /\ queue' = Append(queue, [src |-> s, file |-> f, start |-> start,
                                       length |-> length])
            /\ UNCHANGED unwound

\* A call of schedule by a client of the cache
ScheduleCall(s, f, start, length) ==
    /\ Scheduled < MaxSched
    /\ schedule(s, f, start, length)
    /\ UNCHANGED <<downloaders, built, lastReg, permits, poolSize, dispatcher, tasks, gets,
                   files, cat>>

\* The same, with schedule and get calls bounded together
Schedule(s, f, start, length) ==
    /\ Scheduled + Len(gets) < MaxCalls
    /\ ScheduleCall(s, f, start, length)

\* RangeCache::start, the dispatcher: rx.recv().await
DispatcherRecvLast ==
    /\ dispatcher.pc = "recv"
    /\ queue # <<>>
    /\ dispatcher' = [pc |-> "acquire", msg |-> Some(queue[Len(queue)])]
    /\ queue' = SubSeq(queue, 1, Len(queue) - 1)
    /\ UNCHANGED <<data, downloaders, built, lastReg, permits, poolSize, tasks, gets, unwound, files, cat>>

DispatcherRecv ==
    /\ dispatcher.pc = "recv"
    /\ queue # <<>>
    /\ dispatcher' = [pc |-> "acquire", msg |-> Some(Head(queue))]
    /\ queue' = Tail(queue)
    /\ UNCHANGED <<data, downloaders, built, lastReg, permits, poolSize, tasks, gets, unwound, files, cat>>

AcquirableAlways(p) == TRUE

\* Semaphore::acquire returns only when a permit is free
Acquirable(p) == p > 0

\* RangeCache::start, the dispatcher: pool.acquire().await, permit.forget(), tokio::spawn
DispatcherAcquire ==
    /\ dispatcher.pc = "acquire"
    /\ Acquirable(permits)
    /\ permits' = permits - 1
    /\ tasks' = Append(tasks, [msg |-> dispatcher.msg[1], pc |-> "spawned",
                               downloader |-> None, res |-> None])
    /\ dispatcher' = [pc |-> "recv", msg |-> None]
    /\ UNCHANGED <<data, downloaders, built, lastReg, poolSize, queue, gets, unwound, files, cat>>

\* The download task: downloaders_ref.lock().unwrap(),
\* downloaders_guard.get(&message.0).expect("Downloader not found"),
\* then the call of downloader.download
TaskLookup(i) ==
    /\ tasks[i].pc = "spawned"
    /\ tasks' = IF /\ ~DownloadersPoisoned(tasks)
                   /\ tasks[i].msg.src \in DOMAIN downloaders
                THEN [tasks EXCEPT ![i].pc = "downloading",
                                   ![i].downloader = Some(downloaders[tasks[i].msg.src])]
                ELSE [tasks EXCEPT ![i].pc = "panicked"]
    /\ UNCHANGED <<data, downloaders, built, lastReg, permits, poolSize, queue, dispatcher, gets, unwound, files, cat>>

\* The download task: download(...).await returns, pool_ref.add_permits(1)
TaskDownloaded(i, res) ==
    /\ tasks[i].pc = "downloading"
    /\ res \in DownloadResults(tasks[i].msg)
    /\ tasks' = [tasks EXCEPT ![i].pc = "downloaded", ![i].res = Some(res)]
    /\ permits' = permits + 1
    /\ UNCHANGED <<data, downloaders, built, lastReg, poolSize, queue, dispatcher, gets, unwound, files, cat>>

NotifyOne(gs) ==
    LET ws == {g \in DOMAIN gs : gs[g].pc = "waiting"}
    IN [g \in DOMAIN gs |->
           IF g \in ws /\ \A h \in ws : g <= h THEN [gs[g] EXCEPT !.pc = "woken"] ELSE gs[g]]

\* cv_ref.notify_all(): every thread inside Condvar::wait is woken
NotifyAll(gs) ==
    [g \in DOMAIN gs |-> IF gs[g].pc = "waiting" THEN [gs[g] EXCEPT !.pc = "woken"] ELSE gs[g]]

WrittenPendingOnError(res) ==
    IF res.ok THEN Done(Some(res.bytes)) ELSE Pending

\* match downloaded_res: the Download that the task writes for its result
Written(res) ==
    IF res.ok THEN Done(Some(res.bytes)) ELSE Error(res.reason)

\* The download task: the result is written under the lock, then notify_all;
\* data_ref.lock().unwrap() panics when the lock is poisoned
TaskWrite(i) ==
    /\ tasks[i].pc = "downloaded"
    /\ ~DataLockHeld(gets)
    /\ IF DataPoisoned(gets)
       THEN /\ tasks' = [tasks EXCEPT ![i].pc = "panicked"]
            /\ UNCHANGED <<data, gets>>
       ELSE /\ LET m == tasks[i].msg
                   res == tasks[i].res[1]
               IN data' = Insert(data, m.src, m.file, m.start, Written(res))
            /\ gets' = NotifyAll(gets)
            /\ tasks' = [tasks EXCEPT ![i].pc = "done"]
    /\ UNCHANGED <<downloaders, built, lastReg, permits, poolSize, queue, dispatcher, unwound, files, cat>>

get_inline(s, f, start, length) ==
    /\ \A k \in Offsets :
          (<<s, f>> \in DOMAIN data /\ Floor(data[<<s, f>>], start) = Some(k))
             => data[<<s, f>>][k].state # "Pending"
    /\ gets' = Append(gets, [src |-> s, file |-> f, start |-> start, length |-> length,
                             pc |-> "spawned", why |-> "", waited |-> FALSE, rx |-> None,
                             cached_read_data |-> None, out |-> <<>>, last |-> None])

\* RangeCache::get: the channel, the spawned thread, Ok(CachedRead { None, rx })
get(s, f, start, length) ==
    gets' = Append(gets, [src |-> s, file |-> f, start |-> start, length |-> length,
                          pc |-> "spawned", why |-> "", waited |-> FALSE, rx |-> None,
                          cached_read_data |-> None, out |-> <<>>, last |-> None])

\* A call of get by a client of the cache
GetCall(s, f, start, length) ==
    /\ Len(gets) < MaxGets
    /\ get(s, f, start, length)
    /\ UNCHANGED <<data, downloaders, built, lastReg, permits, poolSize, queue, dispatcher,
                   tasks, unwound, files, cat>>

\* The same, with schedule and get calls bounded together
Get(s, f, start, length) ==
    /\ Scheduled + Len(gets) < MaxCalls
    /\ GetCall(s, f, start, length)

\* Condvar::wait may return without a notification.
SpuriousWake(g) ==
    /\ gets[g].pc = "waiting"
    /\ gets' = [gets EXCEPT ![g].pc = "woken"]
    /\ UNCHANGED <<data, downloaders, built, lastReg, permits, poolSize, queue, dispatcher, tasks, unwound, files, cat>>

DeliverStitched(d, w, k, sum) ==
    LET key == <<w.src, w.file>>
        dl == d[key][k]
        unused_start == w.start - k
    IN CASE dl.state = "Error" -> [pc |-> "panicked", why |-> "unreachable", data |-> d, rx |-> None]
         [] dl.state = "Done" /\ dl.bytes = None ->
                [pc |-> "panicked", why |-> "unwrap on None", data |-> d, rx |-> None]
         [] dl.state = "Done" /\ dl.bytes # None ->
                LET next == k + Len(dl.bytes[1])
                    more == IF /\ next \in DOMAIN d[key]
                               /\ d[key][next].state = "Done"
                               /\ d[key][next].bytes # None
                            THEN d[key][next].bytes[1] ELSE <<>>
                    bytes == dl.bytes[1] \o more
                    taken == [d EXCEPT ![key][k] = Done(None)]
                IN IF sum = None
                   THEN [pc |-> "panicked", why |-> "attempt to add with overflow",
                         data |-> taken, rx |-> None]
                   ELSE IF Len(bytes) >= sum[1]
                   THEN [pc |-> "sent", why |-> "", data |-> taken,
                         rx |-> Some([ok |-> TRUE,
                                      read |-> [data |-> bytes, position |-> unused_start,
                                                remaining |-> w.length]])]
                   ELSE [pc |-> "failed", why |-> "Overflow", data |-> taken, rx |-> None]

\* The terminal-state match of the waiter thread on the entry at key k:
\* take().unwrap(), the ensure! on the length, the CachedReadData that is sent.
\* ensure! leaves the closure before tx.send: nothing is sent and tx is dropped.
\* sum is the value of unused_start as usize + length, one of
\* AddUsize(unused_start, length).
Deliver(d, w, k, sum) ==
    LET key == <<w.src, w.file>>
        dl == d[key][k]
        unused_start == w.start - k
    IN CASE dl.state = "Error" -> [pc |-> "panicked", why |-> "unreachable", data |-> d, rx |-> None]
         [] dl.state = "Done" /\ dl.bytes = None ->
                [pc |-> "panicked", why |-> "unwrap on None", data |-> d, rx |-> None]
         [] dl.state = "Done" /\ dl.bytes # None ->
                LET bytes == dl.bytes[1]
                    taken == [d EXCEPT ![key][k] = Done(None)]
                IN IF sum = None
                   THEN [pc |-> "panicked", why |-> "attempt to add with overflow",
                         data |-> taken, rx |-> None]
                   ELSE IF Len(bytes) >= sum[1]
                   THEN [pc |-> "sent", why |-> "", data |-> taken,
                         rx |-> Some([ok |-> TRUE,
                                      read |-> [data |-> bytes, position |-> unused_start,
                                                remaining |-> w.length]])]
                   ELSE [pc |-> "failed", why |-> "Overflow", data |-> taken, rx |-> None]

\* The body of the thread spawned by get, from taking the lock (first run or after
\* a wake) to its next Condvar::wait or its end.
WaiterStep(d, w, checks) ==
    LET key == <<w.src, w.file>>
    IN IF key \notin DOMAIN d
       THEN IF w.pc = "spawned"
            THEN [pc |-> "failed", why |-> "NotScheduled", data |-> d, rx |-> None]
            ELSE [pc |-> "panicked", why |-> "files should not disappear", data |-> d, rx |-> None]
       ELSE LET before == Floor(d[key], w.start)
            IN IF before = None
               THEN [pc |-> "failed", why |-> "NotScheduled", data |-> d, rx |-> None]
               ELSE IF d[key][before[1]].state = "Pending"
                    THEN [pc |-> "waiting", why |-> "", data |-> d, rx |-> None]
                    ELSE LET sums == AddUsize(w.start - before[1], w.length)
                             sum == IF checks /\ None \in sums THEN None
                                    ELSE CHOOSE x \in sums : x # None
                         IN Deliver(d, w, before[1], sum)

\* Whether the build checks integer overflow (it panics) or not (it wraps)
OverflowChecks == BOOLEAN

\* The thread spawned by RangeCache::get runs under the lock;
\* data_ref.lock().unwrap() and cv_ref.wait(data_guard).unwrap() panic when the
\* lock is poisoned
WaiterRun(g) ==
    /\ gets[g].pc \in {"spawned", "woken"}
    /\ ~DataLockHeld(gets)
    /\ \E checks \in OverflowChecks :
          LET r == IF DataPoisoned(gets)
                   THEN [pc |-> "panicked", why |-> "poisoned", data |-> data, rx |-> None]
                   ELSE WaiterStep(data, gets[g], checks)
          IN /\ data' = r.data
             /\ gets' = [gets EXCEPT ![g].pc = r.pc, ![g].why = r.why, ![g].rx = r.rx,
                                     ![g].waited = @ \/ r.pc = "waiting"]
    /\ UNCHANGED <<downloaders, built, lastReg, permits, poolSize, queue, dispatcher, tasks, unwound, files, cat>>

\* CachedRead::read returns: from the materialized data, or from the value that
\* try_recv finds in the channel. While try_recv fails the loop goes on and the
\* call does not return. The slice of data in CachedReadData::read panics when
\* it ends after the end of data: the value taken from the channel is lost, a
\* materialized reader is left as it was.
CachedReadRead(g, buflen) ==
    /\ \/ gets[g].cached_read_data # None
       \/ gets[g].rx # None /\ gets[g].rx[1].ok
    /\ LET read == IF gets[g].cached_read_data # None
                   THEN gets[g].cached_read_data[1] ELSE gets[g].rx[1].read
           r == CachedReadDataRead(read, buflen)
       IN IF read.position + Min(buflen, read.remaining) > Len(read.data)
          THEN /\ gets' = [gets EXCEPT ![g].rx = None]
               /\ unwound' = unwound \cup {"read"}
          ELSE /\ gets' = [gets EXCEPT ![g].cached_read_data = Some(r.rd),
                                       ![g].rx = None,
                                       ![g].out = @ \o r.bytes,
                                       ![g].last = Some([buf |-> buflen, ret |-> r.n])]
               /\ UNCHANGED unwound
    /\ UNCHANGED <<data, downloaders, built, lastReg, permits, poolSize, queue, dispatcher, tasks, files, cat>>

\* ------------------------------------------------------------ CachedFile
CachedFileNewPrefetching(file_id, length, dler_id, dler_creator, auto_schedule) ==
    /\ Cardinality(files) < MaxFiles
    /\ register_downloader(dler_id, dler_creator)
    /\ files' = IF DownloadersPoisoned(tasks) THEN files
                ELSE files \cup {[dler_id |-> dler_id, file_id |-> file_id,
                                  length |-> length, auto_schedule |-> auto_schedule]}
    /\ data' = Insert(data, dler_id, file_id, 0, Pending)
    /\ queue' = Append(queue, [src |-> dler_id, file |-> file_id, start |-> 0,
                               length |-> 1])
    /\ UNCHANGED <<permits, poolSize, dispatcher, tasks, gets, cat>>

\* CachedFile::new: register_downloader, then the struct
CachedFileNew(file_id, length, dler_id, dler_creator, auto_schedule) ==
    /\ Cardinality(files) < MaxFiles
    /\ register_downloader(dler_id, dler_creator)
    /\ files' = IF DownloadersPoisoned(tasks) THEN files
                ELSE files \cup {[dler_id |-> dler_id, file_id |-> file_id,
                                  length |-> length, auto_schedule |-> auto_schedule]}
    /\ UNCHANGED <<data, permits, poolSize, queue, dispatcher, tasks, gets, cat>>

\* CachedFile::prefetch
CachedFilePrefetch(cf, start, length) ==
    /\ cf \in files
    /\ Scheduled < MaxSched
    /\ Scheduled + Len(gets) < MaxCalls
    /\ schedule(cf.dler_id, cf.file_id, start, length)
    /\ UNCHANGED <<downloaders, built, lastReg, permits, poolSize, dispatcher, tasks, gets,
                   files, cat>>

\* Length::len of CachedFile
CachedFileLen(cf) == cf.length

\* ChunkReader::get_read of CachedFile: schedule when auto_schedule, then get;
\* a panic of schedule leaves get_read before get is called
get_read(cf, start, length) ==
    IF cf.auto_schedule
    THEN /\ schedule(cf.dler_id, cf.file_id, start, length)
         /\ IF DataPoisoned(gets) THEN UNCHANGED gets
            ELSE get(cf.dler_id, cf.file_id, start, length)
    ELSE /\ get(cf.dler_id, cf.file_id, start, length)
         /\ UNCHANGED <<data, queue, unwound>>

\* A call of get_read by a client of the file
CachedFileGetRead(cf, start, length) ==
    /\ cf \in files
    /\ Len(gets) < MaxGets
    /\ Scheduled + Len(gets) + (IF cf.auto_schedule THEN 1 ELSE 0) < MaxCalls
    /\ cf.auto_schedule => Scheduled < MaxSched
    /\ get_read(cf, start, length)
    /\ UNCHANGED <<downloaders, built, lastReg, permits, poolSize, dispatcher, tasks, files, cat>>

Next ==
    \/ \E s \in OneSource, fa \in Factories : RegisterDownloader(s, fa)
    \/ \E s \in OneSource, f \in Files, o \in Offsets, l \in Lengths : Schedule(s, f, o, l)
    \/ DispatcherRecv
    \/ DispatcherAcquire
    \/ \E i \in DOMAIN tasks : TaskLookup(i)
    \/ \E i \in DOMAIN tasks : \E res \in DownloadResults(tasks[i].msg) : TaskDownloaded(i, res)
    \/ \E i \in DOMAIN tasks : TaskWrite(i)
    \/ \E s \in OneSource, f \in Files, o \in Offsets, l \in Lengths : Get(s, f, o, l)
    \/ \E g \in DOMAIN gets : SpuriousWake(g)
    \/ \E g \in DOMAIN gets : WaiterRun(g)
    \/ \E g \in DOMAIN gets, n \in BufLens : CachedReadRead(g, n)

Spec == Init /\ [][Next]_vars

\* Fair scheduling of the dispatcher and of the download tasks; every download
\* call returns.
TaskStep(i) ==
    /\ i \in DOMAIN tasks
    /\ \/ TaskLookup(i)
       \/ \E res \in DownloadResults(tasks[i].msg) : TaskDownloaded(i, res)
       \/ TaskWrite(i)

SpecFair ==
    /\ Spec
    /\ WF_vars(DispatcherRecv)
    /\ WF_vars(DispatcherAcquire)
    /\ \A i \in 1..MaxSched : WF_vars(TaskStep(i))

\* output_for_command, Commands::Cat: absolute_offset is computed and given to
\* with_offset
CatOffset(abs) ==
    /\ cat.pc = "start"
    /\ abs \in AbsoluteOffsets(cat.offset, cat.num_rows)
    /\ cat' = [cat EXCEPT !.pc = IF abs = None THEN "panicked" ELSE "with_offset",
                          !.absolute_offset = abs]
    /\ UNCHANGED <<data, downloaders, built, lastReg, permits, poolSize, queue, dispatcher,
                   tasks, gets, unwound, files>>

NextCat == \E abs \in {None} \cup {Some(v) : v \in 0..UsizeMax} : CatOffset(abs)

SpecCat == InitCat /\ [][NextCat]_vars

\* The cache used through CachedFile values only.
NextFile ==
    \/ \E f \in Files, n \in TotalLengths, s \in OneSource, fa \in Factories, a \in BOOLEAN :
          CachedFileNew(f, n, s, fa, a)
    \/ \E cf \in files, o \in Offsets, l \in Lengths : CachedFilePrefetch(cf, o, l)
    \/ \E cf \in files, o \in Offsets, l \in Lengths : CachedFileGetRead(cf, o, l)
    \/ DispatcherRecv
    \/ DispatcherAcquire
    \/ \E i \in DOMAIN tasks : TaskLookup(i)
    \/ \E i \in DOMAIN tasks : \E res \in DownloadResults(tasks[i].msg) : TaskDownloaded(i, res)
    \/ \E i \in DOMAIN tasks : TaskWrite(i)
    \/ \E g \in DOMAIN gets : SpuriousWake(g)
    \/ \E g \in DOMAIN gets : WaiterRun(g)
    \/ \E g \in DOMAIN gets, n \in BufLens : CachedReadRead(g, n)

SpecFile == Init /\ [][NextFile]_vars

\* The cache used for one file through two sources, at the first offset only.
FirstOffset == {0}
OneFactory == {"factoryA"}

NextKeys ==
    \/ \E s \in Sources, fa \in OneFactory : RegisterDownloader(s, fa)
    \/ \E s \in Sources, f \in Files, o \in FirstOffset, l \in Lengths : Schedule(s, f, o, l)
    \/ DispatcherRecv
    \/ DispatcherAcquire
    \/ \E i \in DOMAIN tasks : TaskLookup(i)
    \/ \E i \in DOMAIN tasks : \E res \in DownloadResults(tasks[i].msg) : TaskDownloaded(i, res)
    \/ \E i \in DOMAIN tasks : TaskWrite(i)
    \/ \E s \in Sources, f \in Files, o \in FirstOffset, l \in Lengths : Get(s, f, o, l)
    \/ \E g \in DOMAIN gets : SpuriousWake(g)
    \/ \E g \in DOMAIN gets : WaiterRun(g)
    \/ \E g \in DOMAIN gets, n \in BufLens : CachedReadRead(g, n)

SpecKeys == Init /\ [][NextKeys]_vars

\* The cache with MaxSched schedule calls and MaxGets get calls in one
\* behaviour, all of them for ranges of one byte read with a buffer of one byte.
OneLength == {1}

NextWake ==
    \/ \E s \in OneSource, fa \in OneFactory : RegisterDownloader(s, fa)
    \/ \E s \in OneSource, f \in Files, o \in Offsets, l \in OneLength :
          ScheduleCall(s, f, o, l)
    \/ DispatcherRecv
    \/ DispatcherAcquire
    \/ \E i \in DOMAIN tasks : TaskLookup(i)
    \/ \E i \in DOMAIN tasks : \E res \in DownloadResults(tasks[i].msg) : TaskDownloaded(i, res)
    \/ \E i \in DOMAIN tasks : TaskWrite(i)
    \/ \E s \in OneSource, f \in Files, o \in Offsets, l \in OneLength : GetCall(s, f, o, l)
    \/ \E g \in DOMAIN gets : SpuriousWake(g)
    \/ \E g \in DOMAIN gets : WaiterRun(g)
    \/ \E g \in DOMAIN gets, n \in OneLength : CachedReadRead(g, n)

SpecWake == Init /\ [][NextWake]_vars

\* A call of get_read by a client of the file, bounded by MaxSched and MaxGets
CachedFileGetReadCall(cf, start, length) ==
    /\ cf \in files
    /\ Len(gets) < MaxGets
    /\ cf.auto_schedule => Scheduled < MaxSched
    /\ get_read(cf, start, length)
    /\ UNCHANGED <<downloaders, built, lastReg, permits, poolSize, dispatcher, tasks, files, cat>>

\* Files built with auto_schedule, read through get_read only, every call for
\* the first byte.
AutoSchedule == {TRUE}

NextAuto ==
    \/ \E f \in Files, n \in TotalLengths, s \in OneSource, fa \in OneFactory, a \in AutoSchedule :
          CachedFileNew(f, n, s, fa, a)
    \/ \E cf \in files, o \in FirstOffset, l \in OneLength : CachedFileGetReadCall(cf, o, l)
    \/ DispatcherRecv
    \/ DispatcherAcquire
    \/ \E i \in DOMAIN tasks : TaskLookup(i)
    \/ \E i \in DOMAIN tasks : \E res \in DownloadResults(tasks[i].msg) : TaskDownloaded(i, res)
    \/ \E i \in DOMAIN tasks : TaskWrite(i)
    \/ \E g \in DOMAIN gets : SpuriousWake(g)
    \/ \E g \in DOMAIN gets : WaiterRun(g)
    \/ \E g \in DOMAIN gets, n \in OneLength : CachedReadRead(g, n)

SpecAuto == Init /\ [][NextAuto]_vars

\* The cache with get calls for one byte and for the greatest usize.
CursorLengths == {1, UsizeMax}

NextCursor ==
    \/ \E s \in OneSource, fa \in OneFactory : RegisterDownloader(s, fa)
    \/ \E s \in OneSource, f \in Files, o \in Offsets, l \in Lengths :
          ScheduleCall(s, f, o, l)
    \/ DispatcherRecv
    \/ DispatcherAcquire
    \/ \E i \in DOMAIN tasks : TaskLookup(i)
    \/ \E i \in DOMAIN tasks : \E res \in DownloadResults(tasks[i].msg) : TaskDownloaded(i, res)
    \/ \E i \in DOMAIN tasks : TaskWrite(i)
    \/ \E s \in OneSource, f \in Files, o \in Offsets, l \in CursorLengths : GetCall(s, f, o, l)
    \/ \E g \in DOMAIN gets : SpuriousWake(g)
    \/ \E g \in DOMAIN gets : WaiterRun(g)
    \/ \E g \in DOMAIN gets, n \in BufLens : CachedReadRead(g, n)

SpecCursor == Init /\ [][NextCursor]_vars

\* ----------------------------------------------------------- properties
Terminated(w) == w.pc \in {"sent", "failed", "panicked"}

\* The file bytes of the range [start, start + length) that w asked for.
Expected(w) == Download(w.src, w.file, w.start, w.length)

\* The bounded view [position, position + remaining) of a CachedReadData.
View(rd) == SubSeq(rd.data, rd.position + 1, rd.position + rd.remaining)

\* k is the greatest start of a chunk of w's file that is <= w.start.
IsFloor(d, w, k) ==
    /\ <<w.src, w.file>> \in DOMAIN d
    /\ k \in DOMAIN d[<<w.src, w.file>>]
    /\ k <= w.start
    /\ \A j \in DOMAIN d[<<w.src, w.file>>] : j <= w.start => j <= k

Chunk(d, w, k) == d[<<w.src, w.file>>][k]

\* The waiter thread of get call g runs its critical section in this step.
WaiterRan(g) == gets[g].pc \in {"spawned", "woken"} /\ gets'[g].pc # gets[g].pc

\* Every request made by schedule so far.
Requests == {tasks[i].msg : i \in DOMAIN tasks}
            \cup {queue[i] : i \in DOMAIN queue}
            \cup {dispatcher.msg[i] : i \in DOMAIN dispatcher.msg}

\* A fetch of (source, file, k, l) has completed successfully.
Fetched(w, k, l) ==
    \E i \in DOMAIN tasks :
        /\ tasks[i].pc = "done"
        /\ tasks[i].res[1].ok
        /\ tasks[i].msg = [src |-> w.src, file |-> w.file, start |-> k, length |-> l]

\* C1 Round-trip: when the waiter of get(S,F,O+j,L-j) runs while its floor chunk is
\* the chunk at O, Done, and the fetch of (S,F,O,L) has completed successfully, the
\* reader is handed exactly the bytes [O+j, O+L) of the file.
RoundTrip ==
    [][\A g \in DOMAIN gets : \A k \in Offsets : \A l \in Lengths :
          ( /\ WaiterRan(g)
            /\ IsFloor(data, gets[g], k)
            /\ Chunk(data, gets[g], k).state = "Done"
            /\ Fetched(gets[g], k, l)
            /\ gets[g].start + gets[g].length = k + l )
          => /\ gets'[g].pc = "sent"
             /\ gets'[g].rx # None
             /\ gets'[g].rx[1].ok
             /\ View(gets'[g].rx[1].read) = Expected(gets[g])]_vars

\* C2 Concurrent waiters: two get calls with the arguments of the one request
\* scheduled for their chunk, which both waited while it was Pending and whose fetch
\* succeeded, end in the same terminal state: both are sent their bytes.
ConcurrentWaiters ==
    \A g1 \in DOMAIN gets : \A g2 \in DOMAIN gets :
        LET w1 == gets[g1]
            w2 == gets[g2]
            m == [src |-> w1.src, file |-> w1.file, start |-> w1.start, length |-> w1.length]
        IN ( /\ g1 # g2
             /\ m = [src |-> w2.src, file |-> w2.file, start |-> w2.start, length |-> w2.length]
             /\ w1.waited /\ w2.waited
             /\ Terminated(w1) /\ Terminated(w2)
             /\ {r \in Requests : r.src = m.src /\ r.file = m.file /\ r.start = m.start} = {m}
             /\ Cardinality({i \in DOMAIN tasks : tasks[i].msg = m}) = 1
             /\ Fetched(w1, m.start, m.length) )
           => w1.pc = "sent" /\ w2.pc = "sent"

\* C3 Download failure propagation: when the waiter runs while its floor chunk is
\* Error, it does not panic and a failure is sent to its reader.
FailurePropagates ==
    [][\A g \in DOMAIN gets : \A k \in Offsets :
          ( /\ WaiterRan(g)
            /\ IsFloor(data, gets[g], k)
            /\ Chunk(data, gets[g], k).state = "Error" )
          => /\ gets'[g].pc # "panicked"
             /\ gets'[g].rx # None
             /\ ~gets'[g].rx[1].ok]_vars

\* C4 Unscheduled read fails: get returns a reader only when the file has a chunk
\* that starts at or before the offset; otherwise get itself fails.
GetFailsNotScheduled ==
    [][\A g \in (DOMAIN gets') \ (DOMAIN gets) :
          \E k \in Offsets : IsFloor(data, gets'[g], k)]_vars

\* C5 Overflow detection: when the waiter runs while its floor chunk is Done with
\* fewer bytes than (S - C) + requested length, an Overflow failure is sent to the
\* reader, and no data is.
OverflowFails ==
    [][\A g \in DOMAIN gets : \A k \in Offsets :
          ( /\ WaiterRan(g)
            /\ IsFloor(data, gets[g], k)
            /\ Chunk(data, gets[g], k).state = "Done"
            /\ Chunk(data, gets[g], k).bytes # None
            /\ Len(Chunk(data, gets[g], k).bytes[1]) < (gets[g].start - k) + gets[g].length )
          => /\ gets'[g].why = "Overflow"
             /\ gets'[g].rx # None
             /\ ~gets'[g].rx[1].ok]_vars

\* C6 Every read() terminates with a value: once the waiter thread of a get has
\* ended, a result (data or an error) is in the reader's channel or in the reader.
\* A waiter that ends without sending drops the sender: try_recv fails for ever
\* after and the loop of read() never exits.
ReadTerminates ==
    \A g \in DOMAIN gets :
        Terminated(gets[g]) => gets[g].rx # None \/ gets[g].cached_read_data # None

\* The download calls that have started and not returned.
Downloading == {i \in DOMAIN tasks : tasks[i].pc = "downloading"}

\* C7 Bounded concurrency: the download calls that have started and not returned
\* are at most the number of permits the cache was constructed with.
BoundedConcurrency == Cardinality(Downloading) <= poolSize

\* All permits are in use by running downloads and a request waits for one.
BoundedConcurrencyWitness ==
    /\ dispatcher.pc = "acquire"
    /\ permits = 0
    /\ Cardinality(Downloading) = poolSize

\* C8 Floor selection: a reader is served from the chunk with the greatest start
\* <= its offset: the data it is sent are the bytes of that chunk, positioned at
\* offset - start.
FloorSelection ==
    [][\A g \in DOMAIN gets :
          (WaiterRan(g) /\ gets'[g].rx # None)
          => LET rd == gets'[g].rx[1].read
                 k == gets[g].start - rd.position
             IN /\ IsFloor(data, gets[g], k)
                /\ Chunk(data, gets[g], k).state = "Done"
                /\ Chunk(data, gets[g], k).bytes = Some(rd.data)]_vars

\* Chunks at 0 and 1 are both Done, the one at 0 covers offset 1 too, and a get at
\* offset 1 was served from the chunk at 1.
FloorSelectionWitness ==
    \E g \in DOMAIN gets :
        /\ gets[g].start = 1
        /\ gets[g].rx # None
        /\ gets[g].rx[1].read.position = 0
        /\ IsFloor(data, gets[g], 1)
        /\ 0 \in DOMAIN data[<<gets[g].src, gets[g].file>>]
        /\ Chunk(data, gets[g], 0).state = "Done"
        /\ Chunk(data, gets[g], 0).bytes # None
        /\ Len(Chunk(data, gets[g], 0).bytes[1]) = 2

\* C9 Partial read semantics: a read with a buffer of n bytes returns
\* min(n, remaining), appends exactly the next that many bytes of the requested
\* range, advances the cursor by that count, and once nothing remains the bytes
\* returned are the requested range and further reads return 0.
PartialRead ==
    [][\A g \in DOMAIN gets :
          (gets'[g].cached_read_data # None /\ gets'[g] # gets[g])
          => LET before == IF gets[g].cached_read_data # None
                           THEN gets[g].cached_read_data[1] ELSE gets[g].rx[1].read
                 after == gets'[g].cached_read_data[1]
                 n == Min(gets'[g].last[1].buf, before.remaining)
                 done == Len(gets[g].out)
             IN /\ gets'[g].last[1].ret = n
                /\ gets'[g].out = gets[g].out \o SubSeq(Expected(gets[g]), done + 1, done + n)
                /\ after.position = before.position + n
                /\ after.remaining = before.remaining - n
                /\ done + before.remaining = gets[g].length
                /\ after.remaining = 0 => gets'[g].out = Expected(gets[g])]_vars

\* The two requested bytes were returned by reads and a later read with a non-empty
\* buffer returned 0, on a reader that started inside its chunk.
PartialReadWitness ==
    \E g \in DOMAIN gets :
        /\ gets[g].cached_read_data # None
        /\ gets[g].start = 1
        /\ gets[g].cached_read_data[1].position = 2
        /\ Len(gets[g].cached_read_data[1].data) = 2
        /\ gets[g].out = Expected(gets[g])
        /\ gets[g].last = Some([buf |-> 2, ret |-> 0])

\* For each downloader id at most one factory call was made, and the stored
\* downloader is the one that call built.
RegisteredOnce ==
    \A s \in Sources :
        /\ Cardinality({fa \in Factories : built[s][fa] > 0}) <= 1
        /\ \A fa \in Factories : built[s][fa] <= 1
        /\ \A fa \in Factories : built[s][fa] = 1 <=> (s \in DOMAIN downloaders /\ downloaders[s] = fa)

\* C10 Idempotent registration: for each downloader id at most one factory call is
\* ever made, the stored downloader is the one that call built, and once an id is
\* registered no step changes its downloader or calls a factory for it.
IdempotentRegistration ==
    /\ []RegisteredOnce
    /\ [][\A s \in DOMAIN downloaders :
             /\ s \in DOMAIN downloaders'
             /\ downloaders'[s] = downloaders[s]
             /\ built'[s] = built[s]]_vars

\* "s3" was registered with factoryA, then again with factoryB.
IdempotentRegistrationWitness ==
    /\ lastReg = Some(<<"s3", "factoryB">>)
    /\ "s3" \in DOMAIN downloaders
    /\ downloaders["s3"] = "factoryA"
    /\ built["s3"]["factoryB"] = 0

\* The requests for (key, o): a schedule call adds one, none is ever removed.
IsFor(m, key, o) == <<m.src, m.file>> = key /\ m.start = o

NumRequests(q, dsp, ts, key, o) ==
    Cardinality({i \in DOMAIN q : IsFor(q[i], key, o)})
    + Cardinality({i \in DOMAIN dsp.msg : IsFor(dsp.msg[i], key, o)})
    + Cardinality({i \in DOMAIN ts : IsFor(ts[i].msg, key, o)})

\* A fetch for (key, o) completes in this step: its task writes its result.
CompletesNow(key, o) ==
    \E i \in DOMAIN tasks :
        /\ tasks[i].pc = "downloaded"
        /\ tasks'[i].pc = "done"
        /\ IsFor(tasks[i].msg, key, o)

\* An entry that appears is Pending; an entry leaves Pending only for Done or Error
\* and only when a fetch for it completes, and then it does leave Pending.
PendingThenTerminal(key, o) ==
    /\ (key \notin DOMAIN data \/ o \notin DOMAIN data[key]) => data'[key][o] = Pending
    /\ (key \in DOMAIN data /\ o \in DOMAIN data[key]) =>
          /\ CompletesNow(key, o) => data'[key][o].state \in {"Done", "Error"}
          /\ (data[key][o].state = "Pending" /\ data'[key][o].state # "Pending")
                => CompletesNow(key, o)

\* C11 (as stated) Download state machine: an entry is created Pending, leaves
\* Pending once, for Done or Error, when its fetch completes, and a Done or Error
\* entry never changes state again, whatever is scheduled.
DownloadStateMachine ==
    [][\A key \in DOMAIN data' : \A o \in DOMAIN data'[key] :
          /\ PendingThenTerminal(key, o)
          /\ (key \in DOMAIN data /\ o \in DOMAIN data[key]
              /\ data[key][o].state \in {"Done", "Error"})
                => data'[key][o].state = data[key][o].state]_vars

\* C11 (amended) the same, for an entry whose (source, file, offset) has been
\* scheduled once: scheduling the offset again puts Pending back.
DownloadStateMachineOnce ==
    [][\A key \in DOMAIN data' : \A o \in DOMAIN data'[key] :
          /\ PendingThenTerminal(key, o)
          /\ (key \in DOMAIN data /\ o \in DOMAIN data[key]
              /\ data[key][o].state \in {"Done", "Error"}
              /\ NumRequests(queue', dispatcher', tasks', key, o) = 1)
                => data'[key][o].state = data[key][o].state]_vars

\* An entry scheduled once is Done, a reader has taken its bytes, and another
\* offset of the file has been scheduled since.
DownloadStateMachineWitness ==
    \E key \in DOMAIN data : \E o \in DOMAIN data[key] :
        /\ data[key][o] = Done(None)
        /\ NumRequests(queue, dispatcher, tasks, key, o) = 1
        /\ \E o2 \in DOMAIN data[key] : o2 # o

\* A schedule call that returns: Pending is at its offset and its request is the
\* last of the work queue.
ScheduleReturns(s, f, o, l) ==
    /\ Schedule(s, f, o, l)
    /\ data'[<<s, f>>][o] = Pending
    /\ queue' = Append(queue, [src |-> s, file |-> f, start |-> o, length |-> l])

\* The calls that the bounds of the model still allow.
CallAllowed == Scheduled < MaxSched /\ Scheduled + Len(gets) < MaxCalls

\* C12 schedule never blocks on fetch progress: in every state, whatever the
\* permits, the dispatcher and the queue, a schedule call inserts Pending,
\* enqueues its request and returns.
ScheduleNeverBlocks ==
    CallAllowed =>
        \A s \in Sources, f \in Files, o \in Offsets, l \in Lengths :
            ENABLED ScheduleReturns(s, f, o, l)

\* The same while no thread spawned by get has panicked.
ScheduleNeverBlocksUnpoisoned ==
    (CallAllowed /\ ~DataPoisoned(gets)) =>
        \A s \in Sources, f \in Files, o \in Offsets, l \in Lengths :
            ENABLED ScheduleReturns(s, f, o, l)

\* A get call that returns its reader: the thread is spawned and has not run,
\* nothing has been received, the chunk maps are as they were.
GetReturns(s, f, o, l) ==
    /\ Get(s, f, o, l)
    /\ Len(gets') = Len(gets) + 1
    /\ gets'[Len(gets')].pc = "spawned"
    /\ gets'[Len(gets')].rx = None
    /\ gets'[Len(gets')].cached_read_data = None
    /\ data' = data

\* The covering chunk of [o, ...) in (s, f) exists and is Pending.
CoveredPending(s, f, o) ==
    /\ <<s, f>> \in DOMAIN data
    /\ \E k \in Offsets : /\ Floor(data[<<s, f>>], o) = Some(k)
                          /\ data[<<s, f>>][k].state = "Pending"

ReaderReturned(s, f, o, l) ==
    /\ Len(gets') = Len(gets) + 1
    /\ SubSeq(gets', 1, Len(gets)) = gets
    /\ gets'[Len(gets')].src = s /\ gets'[Len(gets')].file = f
    /\ gets'[Len(gets')].start = o /\ gets'[Len(gets')].length = l

\* get_read with auto_schedule: one schedule of (o, l), then the lookup.
GetReadSchedulesOnce(cf, o, l) ==
    /\ data' = Insert(data, cf.dler_id, cf.file_id, o, Pending)
    /\ queue' = Append(queue, [src |-> cf.dler_id, file |-> cf.file_id,
                               start |-> o, length |-> l])
    /\ ReaderReturned(cf.dler_id, cf.file_id, o, l)

\* get_read without auto_schedule: no schedule.
GetReadSchedulesNothing == data' = data /\ queue' = queue

\* get_read without auto_schedule, nothing scheduled at or below o: the call
\* fails, no reader is returned.
GetReadFailsUnscheduled(cf, o) ==
    (\A k \in Offsets : ~IsFloor(data, [src |-> cf.dler_id, file |-> cf.file_id,
                                         start |-> o], k))
        => gets' = gets

\* C14 Auto-schedule policy of get_read: with auto_schedule it does exactly one
\* schedule(offset, length) and then the lookup; without, it schedules nothing
\* and fails with NotScheduled on a range that was not scheduled before.
AutoSchedulePolicy ==
    [][\A cf \in files, o \in Offsets, l \in Lengths :
          CachedFileGetRead(cf, o, l) =>
             IF cf.auto_schedule
             THEN GetReadSchedulesOnce(cf, o, l)
             ELSE GetReadSchedulesNothing /\ GetReadFailsUnscheduled(cf, o)]_vars

\* The same without the failure on an unscheduled range.
AutoSchedulePolicySchedules ==
    [][\A cf \in files, o \in Offsets, l \in Lengths :
          CachedFileGetRead(cf, o, l) =>
             IF cf.auto_schedule
             THEN GetReadSchedulesOnce(cf, o, l)
             ELSE GetReadSchedulesNothing]_vars

\* C15 Constructing a CachedFile triggers no I/O: CachedFile::new registers the
\* downloader, without replacing one that is registered, and stores the binding;
\* chunk maps, work queue, dispatcher, download tasks and permits are unchanged;
\* len() of a CachedFile is the length it was constructed with, for good.
ConstructionNoIO ==
    [][/\ \A f \in Files, n \in TotalLengths, s \in Sources, fa \in Factories,
            a \in BOOLEAN :
            CachedFileNew(f, n, s, fa, a) =>
               /\ UNCHANGED <<data, queue, dispatcher, tasks, permits, gets>>
               /\ s \in DOMAIN downloaders =>
                     UNCHANGED <<downloaders, built>>
               /\ s \in DOMAIN downloaders'
               /\ \E cf \in files' :
                     /\ cf.dler_id = s /\ cf.file_id = f /\ cf.auto_schedule = a
                     /\ CachedFileLen(cf) = n
       /\ \A cf \in files : cf \in files']_vars

\* A second CachedFile with another length was constructed with another factory
\* on a registered downloader, which kept its first factory, while a download
\* runs and a request is queued.
ConstructionNoIOWitness ==
    /\ \E cf1 \in files, cf2 \in files : CachedFileLen(cf1) # CachedFileLen(cf2)
    /\ \E s \in Sources : built[s]["factoryA"] + built[s]["factoryB"] = 1
    /\ lastReg # None /\ lastReg[1][2] # downloaders[lastReg[1][1]]
    /\ \E i \in DOMAIN tasks : tasks[i].pc = "downloading"
    /\ queue # <<>>

\* A schedule call for key returns in this step.
ScheduledNow(key) ==
    /\ Len(queue') = Len(queue) + 1
    /\ <<queue'[Len(queue')].src, queue'[Len(queue')].file>> = key

\* Every byte of bs was served by the downloader of source s for file f.
FetchedThrough(bs, s, f) == \A i \in DOMAIN bs : bs[i][1] = s /\ bs[i][2] = f

\* What get call w holds of its chunk: the value in its channel, its
\* materialized view, the bytes it has yielded.
Served(w) ==
    (IF w.rx # None /\ w.rx[1].ok THEN w.rx[1].read.data ELSE <<>>)
    \o (IF w.cached_read_data # None THEN w.cached_read_data[1].data ELSE <<>>)
    \o w.out

\* C16 Cache-key namespacing: a schedule or a fetch completion for (S1, F) leaves
\* the chunk map of every (S2, F), S2 # S1, as it was, absent if it was absent,
\* and serves no get on (S2, F); the bytes in the chunk map of (S, F) and those
\* served to a get on (S, F) were fetched through S.
KeyNamespacing ==
    /\ [](/\ \A key \in DOMAIN data : \A o \in DOMAIN data[key] :
               (data[key][o].state = "Done" /\ data[key][o].bytes # None)
                  => FetchedThrough(data[key][o].bytes[1], key[1], key[2])
          /\ \A g \in DOMAIN gets :
               FetchedThrough(Served(gets[g]), gets[g].src, gets[g].file))
    /\ [][\A key \in Sources \X Files :
             (ScheduledNow(key) \/ \E o \in Offsets : CompletesNow(key, o)) =>
                \A key2 \in (Sources \X Files) \ {key} :
                   /\ key2 \in DOMAIN data' <=> key2 \in DOMAIN data
                   /\ key2 \in DOMAIN data => data'[key2] = data[key2]
                   /\ \A g \in DOMAIN gets :
                         <<gets[g].src, gets[g].file>> = key2
                            => /\ Served(gets'[g]) = Served(gets[g])
                               /\ gets'[g].pc \in {gets[g].pc, "woken"}]_vars

\* The same file and offset are Done under both sources and a get on one of
\* them has yielded bytes.
KeyNamespacingWitness ==
    /\ \A s \in Sources :
          /\ <<s, "f">> \in DOMAIN data
          /\ 0 \in DOMAIN data[<<s, "f">>]
          /\ data[<<s, "f">>][0].state = "Done"
    /\ \E g \in DOMAIN gets : gets[g].out # <<>>

\* C17 Every scheduled fetch runs to completion or failure: under fair
\* scheduling, with every download call returning, the i-th request that was
\* scheduled is eventually started and its task eventually writes Done or Error.
EveryFetchCompletes ==
    \A i \in 1..MaxSched :
        (Scheduled >= i) ~> (Len(tasks) >= i /\ tasks[i].pc = "done")

\* C18 Serving a reader does not consume the chunk: when the thread of a get
\* finds its covering chunk Done, the entry stays Done with the same bytes, and
\* the thread does not panic, however many gets the chunk has served before.
ServingKeepsChunk ==
    [][\A g \in DOMAIN gets : \A k \in Offsets :
          (/\ WaiterRan(g)
           /\ ~DataPoisoned(gets)
           /\ IsFloor(data, gets[g], k)
           /\ Chunk(data, gets[g], k).state = "Done")
             => /\ Chunk(data', gets[g], k) = Chunk(data, gets[g], k)
                /\ Chunk(data, gets[g], k).bytes # None
                /\ gets'[g].pc # "panicked"]_vars

\* C19 cat --offset: a non-negative offset k starts the output at row k; a
\* negative k starts it at row num_rows + k, the last row for -1; for a negative
\* k with num_rows + k >= 0 that row is in [0, num_rows).
CatOffsetRow ==
    cat.pc \in {"with_offset", "panicked"} =>
        /\ cat.offset >= 0 =>
              cat.pc = "with_offset" /\ cat.absolute_offset = Some(cat.offset)
        /\ (cat.offset < 0 /\ cat.num_rows + cat.offset >= 0) =>
              /\ cat.pc = "with_offset"
              /\ cat.absolute_offset = Some(cat.num_rows + cat.offset)
              /\ 0 <= cat.absolute_offset[1] /\ cat.absolute_offset[1] < cat.num_rows
        /\ (cat.offset = -1 /\ cat.num_rows > 0) =>
              cat.absolute_offset = Some(cat.num_rows - 1)

\* --offset -1 on a file with several rows has given the last row.
CatOffsetRowWitness ==
    /\ cat.pc = "with_offset"
    /\ cat.offset = -1
    /\ cat.num_rows > 1
    /\ cat.absolute_offset = Some(cat.num_rows - 1)

\* The download call of task i returns in this step: it was made on the
\* downloader registered under the request's source, for the request's file,
\* offset and length; one permit is released; no chunk map changes.
DownloadReturns(i) ==
    LET m == tasks[i].msg
    IN /\ m.src \in DOMAIN downloaders
       /\ tasks[i].downloader = Some(downloaders[m.src])
       /\ tasks'[i].res # None
       /\ tasks'[i].res[1] \in DownloadResults(m)
       /\ permits' = permits + 1
       /\ data' = data

\* Task i writes its result in this step: Done(bytes) or Error(reason) at the
\* request's offset of the request's (source, file), every other entry as it
\* was, and every thread waiting on the condition is woken.
ResultWritten(i) ==
    LET m == tasks[i].msg
        res == tasks[i].res[1]
    IN /\ tasks'[i].pc = "done"
       /\ DOMAIN data' = (DOMAIN data) \cup {<<m.src, m.file>>}
       /\ \A key \in DOMAIN data' :
             /\ DOMAIN data'[key] = (IF key \in DOMAIN data THEN DOMAIN data[key] ELSE {})
                                    \cup (IF key = <<m.src, m.file>> THEN {m.start} ELSE {})
             /\ \A o \in DOMAIN data'[key] :
                   data'[key][o] = IF key = <<m.src, m.file>> /\ o = m.start
                                   THEN (IF res.ok THEN Done(Some(res.bytes))
                                         ELSE Error(res.reason))
                                   ELSE data[key][o]
       /\ \A g \in DOMAIN gets :
             gets'[g].pc = IF gets[g].pc = "waiting" THEN "woken" ELSE gets[g].pc
       /\ permits' = permits

\* C20 Effects of fetch completion: the download is called on the downloader
\* registered under S with (F, O, L); when it returns one permit is released;
\* then Done(bytes) or Error(reason) is written at key O of the (S, F) chunk map,
\* every other entry of every chunk map is unchanged, and the waiters are
\* notified.
FetchCompletionEffects ==
    [][\A i \in DOMAIN tasks :
          /\ (tasks[i].pc = "downloading" /\ tasks'[i].pc # "downloading")
                => DownloadReturns(i)
          /\ (tasks[i].pc = "downloaded" /\ tasks'[i].pc # "downloaded")
                => ResultWritten(i)]_vars

\* The same while no thread spawned by get has panicked.
FetchCompletionEffectsUnpoisoned ==
    [][\A i \in DOMAIN tasks :
          /\ (tasks[i].pc = "downloading" /\ tasks'[i].pc # "downloading")
                => DownloadReturns(i)
          /\ (tasks[i].pc = "downloaded" /\ tasks'[i].pc # "downloaded"
              /\ ~DataPoisoned(gets))
                => ResultWritten(i)]_vars

\* The thread of get call g runs while the floor chunk of its range is Pending.
RunsOnPending(g) ==
    /\ WaiterRan(g)
    /\ \E k \in Offsets : /\ IsFloor(data, gets[g], k)
                          /\ Chunk(data, gets[g], k).state = "Pending"

\* C21 Wait-in-a-loop safety: the thread of a get that runs, first or after any
\* wake, while its floor chunk is Pending sends nothing to its reader and goes
\* (back) to waiting; no reader receives data before its chunk is terminal.
WaitInLoop ==
    [][\A g \in DOMAIN gets :
          RunsOnPending(g) =>
             /\ gets'[g].pc = "waiting"
             /\ gets'[g].rx = None
             /\ data' = data]_vars

\* The same, the thread being allowed to panic once the data lock is poisoned.
WaitInLoopNothingSent ==
    [][\A g \in DOMAIN gets :
          RunsOnPending(g) =>
             /\ gets'[g].pc = IF DataPoisoned(gets) THEN "panicked" ELSE "waiting"
             /\ gets'[g].rx = None
             /\ data' = data]_vars

Held(w) ==
    IF w.cached_read_data # None THEN w.cached_read_data
    ELSE IF w.rx # None /\ w.rx[1].ok THEN Some(w.rx[1].read) ELSE None

\* The data of rd are the bytes of one fetch, of a chunk of w's file that starts
\* at or before w's offset, and w has yielded a part of them.
FromOneChunk(w, rd) ==
    \E i \in DOMAIN tasks :
        /\ tasks[i].pc = "done"
        /\ tasks[i].res[1].ok
        /\ tasks[i].msg.src = w.src /\ tasks[i].msg.file = w.file
        /\ tasks[i].msg.start <= w.start
        /\ rd.data = tasks[i].res[1].bytes
        /\ w.out = SubSeq(rd.data, w.start - tasks[i].msg.start + 1, rd.position)

\* C23 No cross-chunk stitching: whatever a reader holds or has yielded are the
\* bytes of one chunk; a get whose range ends beyond the end of its floor chunk
\* is not served, whatever the state of the chunk that follows.
NoStitching ==
    /\ [](\A g \in DOMAIN gets :
             /\ Held(gets[g]) # None => FromOneChunk(gets[g], Held(gets[g])[1])
             /\ Held(gets[g]) = None => gets[g].out = <<>>)
    /\ [][\A g \in DOMAIN gets : \A k \in Offsets :
             (/\ WaiterRan(g)
              /\ IsFloor(data, gets[g], k)
              /\ Chunk(data, gets[g], k).state = "Done"
              /\ Chunk(data, gets[g], k).bytes # None
              /\ Len(Chunk(data, gets[g], k).bytes[1])
                    < gets[g].start - k + gets[g].length)
                => gets'[g].rx = None /\ gets'[g].pc # "sent"]_vars

\* Two adjacent chunks were Done and covered the range of a get between them;
\* the get was not served.
NoStitchingWitness ==
    \E g \in DOMAIN gets :
        /\ gets[g].why = "Overflow"
        /\ \E i \in DOMAIN tasks, j \in DOMAIN tasks :
              /\ tasks[i].pc = "done" /\ tasks[i].res[1].ok
              /\ tasks[j].pc = "done" /\ tasks[j].res[1].ok
              /\ tasks[i].msg.start <= gets[g].start
              /\ tasks[j].msg.start = tasks[i].msg.start + tasks[i].msg.length
              /\ tasks[j].msg.start + tasks[j].msg.length >= gets[g].start + gets[g].length

\* C24 No deduplication of schedules: a schedule call for (S, F, O) that
\* returns adds its request to the work queue whatever requests for (S, F, O)
\* are queued, held by the dispatcher or in flight, leaves all of those as they
\* are, and puts Pending at O; no step ever removes a request.
NoDeduplication ==
    [][/\ \A s \in Sources, f \in Files, o \in Offsets, l \in Lengths :
            (Schedule(s, f, o, l) /\ ~DataPoisoned(gets)) =>
               /\ queue' = Append(queue, [src |-> s, file |-> f, start |-> o,
                                          length |-> l])
               /\ NumRequests(queue', dispatcher', tasks', <<s, f>>, o)
                     = NumRequests(queue, dispatcher, tasks, <<s, f>>, o) + 1
               /\ data'[<<s, f>>][o] = Pending
               /\ UNCHANGED <<dispatcher, tasks, permits>>
       /\ \A key \in Sources \X Files : \A o \in Offsets :
            NumRequests(queue', dispatcher', tasks', key, o)
               >= NumRequests(queue, dispatcher, tasks, key, o)]_vars

\* An offset was scheduled a second time while its first fetch was in flight,
\* and the download has been called and has returned for both requests.
NoDeduplicationWitness ==
    \E i \in DOMAIN tasks, j \in DOMAIN tasks :
        /\ i < j
        /\ tasks[i].msg.src = tasks[j].msg.src /\ tasks[i].msg.file = tasks[j].msg.file
        /\ tasks[i].msg.start = tasks[j].msg.start
        /\ tasks[i].pc = "downloaded" /\ tasks[j].pc = "downloaded"
        /\ data[<<tasks[i].msg.src, tasks[i].msg.file>>][tasks[i].msg.start] = Pending

\* C25 No eviction: a (source, file) that has a chunk map keeps it and an offset
\* that is a key of it stays a key, whatever step is taken; the thread of a get
\* never finds its file missing after a wake.
NoEviction ==
    /\ [][\A key \in DOMAIN data :
             /\ key \in DOMAIN data'
             /\ \A o \in DOMAIN data[key] : o \in DOMAIN data'[key]]_vars
    /\ [](\A g \in DOMAIN gets : gets[g].why # "files should not disappear")

\* A file has two chunks, one consumed by a get that had waited for it, the
\* other scheduled afterwards.
NoEvictionWitness ==
    \E key \in DOMAIN data :
        /\ Cardinality(DOMAIN data[key]) = 2
        /\ \E o \in DOMAIN data[key] : data[key][o] = Done(None)
        /\ \E o \in DOMAIN data[key] : data[key][o] = Pending
        /\ \E g \in DOMAIN gets : gets[g].waited /\ gets[g].pc = "sent"

HoldingPermit == {i \in DOMAIN tasks : tasks[i].pc \in {"spawned", "downloading"}}

\* The tasks that panicked at the look-up of their downloader, after the
\* permit was forgotten and before add_permits(1)
PanickedAtLookup == {i \in DOMAIN tasks : tasks[i].pc = "panicked" /\ tasks[i].res = None}

\* Every permit is free, held by a running task, or lost with a task that
\* panicked at the look-up.
PermitsAccounted ==
    permits + Cardinality(HoldingPermit) + Cardinality(PanickedAtLookup) = poolSize

\* C27 Permit conservation: in every reachable state the free permits plus the
\* running tasks that have taken a permit and not yet returned it make N, so no
\* permit is lost on any path of a task: success, download error, or a source
\* id with no registered downloader.
PermitConservation == permits + Cardinality(HoldingPermit) = poolSize

\* The start of the chunk that the thread of w finds when it looks now:
\* the greatest key of w's file at or before w.start, None when there is none.
FloorNow(d, w) ==
    IF <<w.src, w.file>> \in DOMAIN d THEN Floor(d[<<w.src, w.file>>], w.start) ELSE None

\* C28 Reader binding is fixed at get time: once get has returned and until the
\* reader's thread has delivered or failed, no step (a schedule in particular)
\* changes the chunk that serves the reader, nor whether there is such a chunk.
ReaderBinding ==
    [][\A g \in DOMAIN gets :
          gets[g].pc \in {"spawned", "waiting", "woken"}
          => FloorNow(data', gets[g]) = FloorNow(data, gets[g])]_vars

\* No download call has returned an error.
DownloadsSucceed == \A i \in DOMAIN tasks : tasks[i].res # None => tasks[i].res[1].ok

\* C29 With auto_schedule, two get_read calls on one file for the same
\* (offset, length), the second after the first reader was read or while the
\* first fetch is in flight: as long as the downloads succeed, no thread of a
\* get panics or fails, no call unwinds, and what a reader has returned is the
\* requested bytes.
AutoScheduleTwice ==
    DownloadsSucceed =>
        /\ unwound = {}
        /\ \A g \in DOMAIN gets :
              /\ gets[g].pc \notin {"panicked", "failed"}
              /\ gets[g].out = SubSeq(Expected(gets[g]), 1, Len(gets[g].out))

\* The tasks i and j are for the same (source, file, offset) with different
\* lengths, i scheduled before j (the dispatcher starts requests in the order
\* of the schedule calls), and both have written a successful result.
BothFetched(i, j) ==
    /\ i < j
    /\ tasks[i].msg.src = tasks[j].msg.src
    /\ tasks[i].msg.file = tasks[j].msg.file
    /\ tasks[i].msg.start = tasks[j].msg.start
    /\ tasks[i].msg.length # tasks[j].msg.length
    /\ tasks[i].pc = "done" /\ tasks[i].res[1].ok
    /\ tasks[j].pc = "done" /\ tasks[j].res[1].ok

\* C30 Latest schedule wins: when the same (source, file, offset) was scheduled
\* with length L1 and then with length L2, no request is left to start, both
\* fetches have finished and no reader has taken the bytes, the entry is Done
\* with the L2 bytes of the later request, whatever the order of completion.
LatestScheduleWins ==
    \A i \in DOMAIN tasks : \A j \in DOMAIN tasks :
        (/\ BothFetched(i, j)
         /\ Len(tasks) = Scheduled
         /\ \A k \in DOMAIN tasks : IsFor(tasks[k].msg, <<tasks[j].msg.src, tasks[j].msg.file>>, tasks[j].msg.start)
                                    => k <= j
         /\ gets = <<>>)
        => data[<<tasks[j].msg.src, tasks[j].msg.file>>][tasks[j].msg.start]
              = Done(Some(tasks[j].res[1].bytes))

\* The requests in the order of their start: those of the tasks started so
\* far, then the one the dispatcher holds, then those waiting in the channel.
StartOrder(ts, dsp, q) == [i \in DOMAIN ts |-> ts[i].msg] \o dsp.msg \o q

\* C31 FIFO fetch start: the dispatcher starts the requests in the order in
\* which they were scheduled. A step either leaves the order of started,
\* held and queued requests as it is, or is a schedule call that puts its
\* request at the end; a task that is started is for the first request not yet
\* started. The order of completion is free (see the witness).
FifoStart ==
    [][LET before == StartOrder(tasks, dispatcher, queue)
           after == StartOrder(tasks', dispatcher', queue')
       IN /\ \/ after = before
             \/ /\ Len(after) = Len(before) + 1
                /\ SubSeq(after, 1, Len(before)) = before
                /\ Len(queue') = Len(queue) + 1
                /\ tasks' = tasks
          /\ Len(tasks') > Len(tasks) =>
                /\ Len(tasks') = Len(tasks) + 1
                /\ tasks'[Len(tasks')].msg = before[Len(tasks) + 1]]_vars

\* The chunk at 0 was scheduled first and is still Pending, its task started
\* and not yet written; the chunk at 1, scheduled second, is Done, and a reader
\* at offset 1 was served without ever waiting.
FifoStartWitness ==
    /\ Len(tasks) = 2
    /\ tasks[1].msg.start = 0 /\ tasks[1].pc \in {"downloading", "downloaded"}
    /\ tasks[2].msg.start = 1 /\ tasks[2].pc = "done"
    /\ data[<<"s3", "f">>][0] = Pending
    /\ data[<<"s3", "f">>][1].state = "Done"
    /\ \E g \in DOMAIN gets :
          /\ gets[g].start = 1
          /\ ~gets[g].waited
          /\ gets[g].out = Expected(gets[g])

\* C32 Reader cursor invariant: for every reader that holds or has been sent
\* its data, position + remaining is (offset - chunkStart) + requestedLength for
\* a chunk start at or before the offset and is at most the length of the held
\* bytes; a read leaves position + remaining as it was; and no read panics on
\* a slice outside the bytes.
CursorInvariant ==
    /\ [](\A g \in DOMAIN gets :
            Held(gets[g]) # None =>
               LET rd == Held(gets[g])[1]
               IN /\ \E k \in Offsets :
                        /\ k <= gets[g].start
                        /\ k \in DOMAIN data[<<gets[g].src, gets[g].file>>]
                        /\ rd.position + rd.remaining = (gets[g].start - k) + gets[g].length
                  /\ rd.position + rd.remaining <= Len(rd.data))
    /\ []("read" \notin unwound)
    /\ [][\A g \in DOMAIN gets :
             Held(gets[g]) # None =>
                /\ Held(gets'[g]) # None
                /\ Held(gets'[g])[1].position + Held(gets'[g])[1].remaining
                      = Held(gets[g])[1].position + Held(gets[g])[1].remaining]_vars
====
